---- MODULE Spec2Model ----
(***************************************************************************)
(* A model of dl-pipe's resumable download engine (package dlpipe):        *)
(* DownloadURL, downloader.run, downloader.runInner, RetryParameters.Wait, *)
(* the writer chain built by WithHasher / WithExpectedHash around a        *)
(* datacounter.WriterCounter, and downloader.progressReportLoop.           *)
(*                                                                         *)
(* Conventions.  Byte offsets are 0-based as in the code; TLA+ sequences   *)
(* are 1-based, so offset o of the resource is resource[o + 1].            *)
(* Durations are counted in milliseconds.  A nil error is the string       *)
(* "nil"; the other error values are the Err* strings below.               *)
(***************************************************************************)
EXTENDS Integers, Sequences, FiniteSets, TLC

\* ------------------------------------------------------------------ bounds
\* Longest resource served, in bytes.
MaxLen == 3
\* Largest MaxRetries a session is configured with.
MaxMaxRetries == 2
\* Number of progress ticks the reporter may take in one session.
MaxTicks == 2

\* Sizes of the chunks one io.Copy iteration reads from the body.
ChunkSizes == {1, 2}

\* -------------------------------------------------------- program constants
oneMB == 1048576
BaseWait == 250
WaitMultiplier == 2
StatusOK == 200
StatusPartialContent == 206
StatusBadGateway == 502
\* A status the code names nowhere.
OtherStatuses == {404}
\* Content-Length the HTTP client reports when the response declares none.
UnknownLength == -1
\* The expected digest []byte{} of the mismatch test: equal to no digest.
EmptyDigest == -1

\* ------------------------------------------------------------ error values
ErrNil == "nil"
ErrNonRetryable == "ErrNonRetryable"
ErrBadGatewayPlain == "bad gateway"
ErrDoRequest == "do request: transport error"
ErrDoRequestCanceled == "do request: context canceled"
ErrCtxCanceled == "context canceled"
ErrRetryParametersExceeded == "ErrRetryParametersExceeded"
ErrHashMismatch == "ErrHashMismatch"
Running == "running"

\* errors.Is(err, context.Canceled): Wait returns ctx.Err() itself, runInner
\* wraps the client's error with %w.
IsCancellation(err) == err \in {ErrCtxCanceled, ErrDoRequestCanceled}

\* ------------------------------------------------------------- the resource
ByteAt(off) == (off * 37 + 11) % 256

ResourceOfLen(n) == [i \in 1..n |-> ByteAt(i - 1)]

\* ----------------------------------------------------------------- hashing
\* hash.Hash as a running digest: New() gives HashInit, Write folds the bytes
\* in order, Sum(nil) reads the state.
HashInit == 7

RECURSIVE HashWrite(_, _)
HashWrite(h, p) ==
    IF p = <<>> THEN h
    ELSE HashWrite((h * 31 + Head(p)) % 65521, Tail(p))

HashSum(h) == h

\* The digest of the resource hashed in one pass (serveInterruptedTestFile).
OnePassDigest(res) == HashSum(HashWrite(HashInit, res))

NewHasher == [h |-> HashInit, fed |-> <<>>]

HasherWrite(hs, p) == [h |-> HashWrite(hs.h, p), fed |-> hs.fed \o p]

\* -------------------------------------------------- options and writer chain
\* The downloader fields the option functions build: the hash sinks fanned
\* out after the destination (tmpWriter) and the finalization checks.
NewDownloader == [hashers |-> <<>>, finalFuncs |-> <<>>]

\* io.MultiWriter(d.tmpWriter, hasher): the hasher becomes the last sink.
WithHasher(d) == [d EXCEPT !.hashers = Append(@, NewHasher)]

WithExpectedHash(d, expected) ==
    [hashers    |-> Append(d.hashers, NewHasher),
     finalFuncs |-> Append(d.finalFuncs,
                           [hasher |-> Len(d.hashers) + 1, expected |-> expected])]

Options == {"WithHasher", "WithExpectedHash:good", "WithExpectedHash:empty", "nil"}

\* The option lists sessions are started with; DownloadURL skips a nil option.
OptionLists ==
    {<<>>,
     <<"nil", "WithExpectedHash:good">>,
     <<"WithHasher", "WithExpectedHash:empty">>,
     <<"WithExpectedHash:good", "WithExpectedHash:empty">>,
     <<"WithExpectedHash:empty", "WithExpectedHash:good">>}

ApplyOpt(d, opt, res) ==
    CASE opt = "nil" -> d
      [] opt = "WithHasher" -> WithHasher(d)
      [] opt = "WithExpectedHash:good" -> WithExpectedHash(d, OnePassDigest(res))
      [] OTHER -> WithExpectedHash(d, EmptyDigest)

RECURSIVE ApplyOpts(_, _, _)
ApplyOpts(d, opts, res) ==
    IF opts = <<>> THEN d
    ELSE ApplyOpts(ApplyOpt(d, Head(opts), res), Tail(opts), res)

\* One Write on the multi-writer: the sinks are written in order, destination
\* first, and the first sink that fails ends the call.  The destination takes
\* `accept` bytes of p; taking fewer than Len(p) is a failed write.  A hash
\* never fails.
MultiWriterWrite(dst, hs, p, accept) ==
    IF accept < Len(p)
    THEN [dest |-> dst \o SubSeq(p, 1, accept), hashers |-> hs,
          n |-> accept, err |-> TRUE]
    ELSE [dest |-> dst \o p,
          hashers |-> [i \in 1..Len(hs) |-> HasherWrite(hs[i], p)],
          n |-> Len(p), err |-> FALSE]

\* datacounter.WriterCounter.Write: the count grows by the n the wrapped
\* writer returned, error or not.
WriterCounterWrite(cnt, n) == cnt + n

\* -------------------------------------------------------------- the server
\* A Content-Range header value as the tokens Sscanf sees; <<>> is an absent
\* header.
ContentRange(unit, s, e, t) == <<unit, s, "-", e, "/", t>>

ContentRanges(res) ==
    LET L == Len(res) IN
      {ContentRange("bytes", s, e, t) :
           s \in 0..(L - 1), e \in {L - 2, L - 1}, t \in {L, L + 1}}
      \cup {ContentRange(u, s, L - 1, L) : u \in {"Bytes", "items"}, s \in 0..(L - 1)}
      \cup {<<"bytes", s, "-", L - 1>> : s \in 0..(L - 1)}
      \cup {<<>>}

\* The bytes a partial response carries: those its Content-Range names.
RangeBody(res, cr) ==
    IF Len(cr) < 4 THEN <<>>
    ELSE IF cr[2] <= cr[4] /\ cr[4] < Len(res) THEN SubSeq(res, cr[2] + 1, cr[4] + 1)
    ELSE <<>>

Response(status, cl, cr, b) ==
    [status |-> status, contentLength |-> cl, contentRange |-> cr, body |-> b]

\* What a server may answer to a request, whatever the request asked for.
ServerResponses(res) ==
    {Response(StatusOK, cl, <<>>, res) : cl \in {Len(res), UnknownLength}}
    \cup {Response(StatusPartialContent, Len(RangeBody(res, cr)), cr, RangeBody(res, cr)) :
             cr \in ContentRanges(res)}
    \cup {Response(StatusBadGateway, 0, <<>>, <<>>)}
    \cup {Response(st, cl, <<>>, <<>>) : st \in OtherStatuses, cl \in {0, 2}}

\* ---------------------------------------------------------------- runInner
ToLower(tok) == IF tok = "Bytes" THEN "bytes" ELSE tok

\* fmt.Sscanf(strings.ToLower(header), "bytes %d-%d/%d", &start, &end, &total)
Sscanf(header) ==
    IF Len(header) = 0 \/ ToLower(header[1]) # "bytes" \/ Len(header) < 6
    THEN [err |-> TRUE, respStart |-> 0, respEnd |-> 0, respTotal |-> 0]
    ELSE [err |-> FALSE, respStart |-> header[2], respEnd |-> header[4],
          respTotal |-> header[6]]

\* Mutant: the resume offset is one byte short of the committed count.
DownloadFrom_OneShort(cnt) == IF cnt > 0 THEN cnt - 1 ELSE cnt

DownloadFrom(cnt) == cnt

SetsRangeHeader(downloadFrom) == downloadFrom > 0

NewRequest(cnt) ==
    [hasRange |-> SetsRangeHeader(DownloadFrom(cnt)), from |-> DownloadFrom(cnt)]

\* Mutant: every response is treated as the first read.
IsFirstRead_Always(cl) == TRUE

IsFirstRead(cl) == cl = 0

FirstReadStatusErr(status) ==
    IF status # StatusOK THEN ErrNonRetryable ELSE ErrNil

\* Mutant: the status error of a subsequent read is not wrapped as
\* non-retryable.
SubsequentReadStatusErr_Unwrapped(status) ==
    IF status # StatusPartialContent THEN "unexpected status code on subsequent read"
    ELSE ErrNil

SubsequentReadStatusErr(status) ==
    IF status # StatusPartialContent THEN ErrNonRetryable ELSE ErrNil

\* Mutant: the start of the returned range is not compared.
RangeStartOK_Unchecked(respStart, downloadFrom) == TRUE

RangeStartOK(respStart, downloadFrom) == respStart = downloadFrom

\* Mutant: the end of the returned range is not compared.
RangeEndOK_Unchecked(respEnd, cl) == TRUE

RangeEndOK(respEnd, cl) == respEnd = cl - 1

RangeTotalOK(respTotal, cl) == respTotal = cl

\* The outcome of runInner once the client returned resp: the error, the
\* content length the downloader holds afterwards, whether the body is handed
\* to run, and whether runInner closed it.
Outcome(err, cl, handed, closed) ==
    [err |-> err, contentLength |-> cl, handed |-> handed, closed |-> closed]

RunInner(resp, downloadFrom, cl) ==
    IF resp.status = StatusBadGateway
    THEN Outcome(ErrBadGatewayPlain, cl, FALSE, FALSE)
    ELSE IF IsFirstRead(cl)
    THEN LET e == FirstReadStatusErr(resp.status) IN
           Outcome(e, resp.contentLength, e = ErrNil, FALSE)
    ELSE IF SubsequentReadStatusErr(resp.status) # ErrNil
    THEN Outcome(SubsequentReadStatusErr(resp.status), cl, FALSE, FALSE)
    ELSE LET sc == Sscanf(resp.contentRange) IN
           IF sc.err \/ ~RangeStartOK(sc.respStart, downloadFrom)
                     \/ ~RangeEndOK(sc.respEnd, cl)
                     \/ ~RangeTotalOK(sc.respTotal, cl)
           THEN Outcome(ErrNonRetryable, cl, FALSE, TRUE)
           ELSE Outcome(ErrNil, cl, TRUE, FALSE)

\* -------------------------------------------------------- RetryParameters
\* Mutant: the budget ends one retry early.
WaitExceeded_OneEarly(ctr, max) == ctr + 1 >= max

\* Mutant: the budget ends one retry late.
WaitExceeded_OneLate(ctr, max) == ctr > max

WaitExceeded(ctr, max) == ctr >= max

WaitResets(cur, prev, currentPosition) ==
    cur = 0 \/ (prev # 0 /\ currentPosition > prev + oneMB)

\* The wait period Wait sleeps for.
WaitPeriod(cur, prev, currentPosition) ==
    IF WaitResets(cur, prev, currentPosition) THEN BaseWait ELSE cur

\* Mutant: the deferred update leaves the wait period as it is.
WaitDeferred_NoBackoff(ctr, cur) == [retryCtr |-> ctr + 1, currentWait |-> cur]

\* Mutant: the deferred update leaves the retry counter as it is.
WaitDeferred_NoCount(ctr, cur) == [retryCtr |-> ctr, currentWait |-> cur * WaitMultiplier]

\* The deferred update that runs when Wait returns from its select.
WaitDeferred(ctr, cur) == [retryCtr |-> ctr + 1, currentWait |-> cur * WaitMultiplier]

\* ------------------------------------------------------------------- state
VARIABLES
    maxRetries,      \* RetryParameters.MaxRetries of this session
    resource,        \* the bytes the server holds
    finalFuncs,      \* d.finalFuncs, in registration order
    progressFunc,    \* whether WithProgressFunc was given
    pc,              \* where run is: runInner, do, copy, wait, select, final, done
    result,          \* the error DownloadURL returned, Running before it returns
    mismatch,        \* the fields of the ErrHashMismatch returned, if any
    contentLength,   \* d.contentLength
    count,           \* d.writer.Count()
    dest,            \* the bytes the primary destination has accepted
    hashers,         \* the hash sinks of the chain, in attach order
    retryCtr,        \* RetryParameters.retryCtr
    currentWait,     \* RetryParameters.currentWait
    prevPos,         \* RetryParameters.prevPos
    request,         \* the request of the current attempt
    body,            \* what is left to read of the body being copied
    respLog,         \* the responses the client returned, with their requests
    bodies,          \* per response: its body is open, unclosed or closed
    numRequests,     \* requests sent to the server
    cancelled,       \* the caller's context is cancelled
    cancelledAt,     \* pc when the caller cancelled
    reqsAtCancel,    \* numRequests when the caller cancelled
    finalIdx,        \* index of the next finalization check
    evaluated,       \* the checks evaluated so far, in order
    readErrs,        \* copies ended by a failed body read
    writeErrs,       \* copies ended by a failed destination write
    errAtZero,       \* some copy failed with nothing committed yet
    copyDone,        \* io.Copy returned nil
    repPc,           \* progressReportLoop: none, select, call, stopped
    repCur,          \* the Count() value read for the pending callback
    reports          \* the (current, total) pairs the callback was given

cfgVars == <<maxRetries, resource, finalFuncs, progressFunc>>
sinkVars == <<count, dest, hashers>>
retryVars == <<retryCtr, currentWait, prevPos>>
httpVars == <<request, body, respLog, bodies, numRequests>>
ctxVars == <<cancelled, cancelledAt, reqsAtCancel>>
finalVars == <<finalIdx, evaluated, mismatch>>
histVars == <<readErrs, writeErrs, errAtZero, copyDone>>
repVars == <<repPc, repCur, reports>>

vars == <<cfgVars, pc, result, contentLength, sinkVars, retryVars, httpVars,
          ctxVars, finalVars, histVars, repVars>>

NoMismatch == [set |-> FALSE, ExpectedHash |-> EmptyDigest, GivenHash |-> EmptyDigest]

\* DownloadURL up to the call of run, and run up to its loop.
Start(opts, mr, res, pf) ==
    /\ maxRetries = mr
    /\ resource = res
    /\ progressFunc = pf
    /\ hashers = ApplyOpts(NewDownloader, opts, res).hashers
    /\ finalFuncs = ApplyOpts(NewDownloader, opts, res).finalFuncs
    /\ pc = "runInner"
    /\ result = Running
    /\ mismatch = NoMismatch
    /\ contentLength = 0
    /\ count = 0
    /\ dest = <<>>
    /\ retryCtr = 0
    /\ currentWait = 0
    /\ prevPos = 0
    /\ request = NewRequest(0)
    /\ body = <<>>
    /\ respLog = <<>>
    /\ bodies = <<>>
    /\ numRequests = 0
    /\ cancelled = FALSE
    /\ cancelledAt = "never"
    /\ reqsAtCancel = 0
    /\ finalIdx = 1
    /\ evaluated = <<>>
    /\ readErrs = 0
    /\ writeErrs = 0
    /\ errAtZero = FALSE
    /\ copyDone = FALSE
    /\ repPc = IF progressFunc THEN "select" ELSE "none"
    /\ repCur = 0
    /\ reports = <<>>

\* The deferred body.Close() calls that run when run returns.
DeferredClose(bs) == [i \in 1..Len(bs) |-> IF bs[i] = "open" THEN "closed" ELSE bs[i]]

\* run returns err.
Return(err) ==
    /\ pc' = "done"
    /\ result' = err
    /\ bodies' = DeferredClose(bodies)

\* ---------------------------------------------------------------- actions
\* Mutant: the request is built without the context.
ClientRefuses_NoContext(ctxCancelled) == FALSE

\* The request carries run's context (NewRequestWithContext): once that
\* context is cancelled the client sends nothing, and a request in flight
\* ends with the context's error instead of a response.
ClientRefuses(ctxCancelled) == ctxCancelled

\* runInner builds the request and hands it to the client.
IssueRequest ==
    /\ pc = "runInner"
    /\ ~ClientRefuses(cancelled)
    /\ request' = NewRequest(count)
    /\ numRequests' = numRequests + 1
    /\ pc' = "do"
    /\ UNCHANGED <<cfgVars, result, contentLength, sinkVars, retryVars, body,
                   respLog, bodies, ctxVars, finalVars, histVars, repVars>>

\* The client refuses a request whose context is already cancelled.
DoRefused ==
    /\ pc = "runInner"
    /\ ClientRefuses(cancelled)
    /\ Return(ErrDoRequestCanceled)
    /\ UNCHANGED <<cfgVars, contentLength, sinkVars, retryVars, request, body,
                   respLog, numRequests, ctxVars, finalVars, histVars, repVars>>

\* The context is cancelled while the request is in flight.
DoCanceled ==
    /\ pc = "do"
    /\ ClientRefuses(cancelled)
    /\ Return(ErrDoRequestCanceled)
    /\ UNCHANGED <<cfgVars, contentLength, sinkVars, retryVars, request, body,
                   respLog, numRequests, ctxVars, finalVars, histVars, repVars>>

\* The client fails without a response.
DoTransportError ==
    /\ pc = "do"
    /\ ~ClientRefuses(cancelled)
    /\ Return(ErrDoRequest)
    /\ UNCHANGED <<cfgVars, contentLength, sinkVars, retryVars, request, body,
                   respLog, numRequests, ctxVars, finalVars, histVars, repVars>>

LogEntry(req, resp, ctr, committed) ==
    [hasRange |-> req.hasRange, from |-> req.from, status |-> resp.status,
     contentLength |-> resp.contentLength, contentRange |-> resp.contentRange,
     ctr |-> ctr, committed |-> committed]

\* The client returns a response; the rest of runInner runs, and run either
\* returns its error or starts copying the body.
DoResponse ==
    /\ pc = "do"
    /\ ~ClientRefuses(cancelled)
    /\ \E resp \in ServerResponses(resource) :
         LET o == RunInner(resp, request.from, contentLength) IN
           /\ respLog' = Append(respLog, LogEntry(request, resp, retryCtr, Len(dest)))
           /\ contentLength' = o.contentLength
           /\ IF o.err # ErrNil
              THEN /\ pc' = "done"
                   /\ result' = o.err
                   /\ bodies' = DeferredClose(
                          Append(bodies, IF o.closed THEN "closed" ELSE "unclosed"))
                   /\ body' = body
              ELSE /\ pc' = "copy"
                   /\ result' = result
                   /\ bodies' = Append(bodies, "open")
                   /\ body' = resp.body
    /\ UNCHANGED <<cfgVars, sinkVars, retryVars, request, numRequests, ctxVars,
                   finalVars, histVars, repVars>>

\* Mutant: the error of io.Copy is ignored.
AfterCopy_IgnoresError(failed) == "final"

\* Where run goes when io.Copy returned: out of the loop on nil, to Wait on
\* an error.
AfterCopy(failed) == IF failed THEN "wait" ELSE "final"

\* One io.Copy iteration whose write succeeds.
CopyWrite ==
    /\ pc = "copy"
    /\ \E k \in ChunkSizes :
         /\ k <= Len(body)
         /\ LET w == MultiWriterWrite(dest, hashers, SubSeq(body, 1, k), k) IN
              /\ dest' = w.dest
              /\ hashers' = w.hashers
              /\ count' = WriterCounterWrite(count, w.n)
         /\ body' = SubSeq(body, k + 1, Len(body))
    /\ UNCHANGED <<cfgVars, pc, result, contentLength, retryVars, request, respLog,
                   bodies, numRequests, ctxVars, finalVars, histVars, repVars>>

\* One io.Copy iteration whose write fails after the destination took
\* accept < k bytes: io.Copy returns the error.
CopyWriteFail ==
    /\ pc = "copy"
    /\ \E k \in ChunkSizes : \E accept \in 0..(k - 1) :
         /\ k <= Len(body)
         /\ LET w == MultiWriterWrite(dest, hashers, SubSeq(body, 1, k), accept) IN
              /\ dest' = w.dest
              /\ hashers' = w.hashers
              /\ count' = WriterCounterWrite(count, w.n)
         /\ body' = SubSeq(body, k + 1, Len(body))
    /\ pc' = AfterCopy(TRUE)
    /\ writeErrs' = writeErrs + 1
    /\ errAtZero' = (errAtZero \/ count' = 0)
    /\ UNCHANGED <<cfgVars, result, contentLength, retryVars, request, respLog,
                   bodies, numRequests, ctxVars, finalVars, readErrs, copyDone,
                   repVars>>

\* The body read fails before the body is complete: io.Copy returns the error.
CopyReadError ==
    /\ pc = "copy"
    /\ body # <<>>
    /\ pc' = AfterCopy(TRUE)
    /\ body' = <<>>
    /\ readErrs' = readErrs + 1
    /\ errAtZero' = (errAtZero \/ count = 0)
    /\ UNCHANGED <<cfgVars, result, contentLength, sinkVars, retryVars, request,
                   respLog, bodies, numRequests, ctxVars, finalVars, writeErrs,
                   copyDone, repVars>>

\* The body ends: io.Copy returns nil and run leaves its loop.
CopyEOF ==
    /\ pc = "copy"
    /\ body = <<>>
    /\ pc' = AfterCopy(FALSE)
    /\ copyDone' = TRUE
    /\ UNCHANGED <<cfgVars, result, contentLength, sinkVars, retryVars, httpVars,
                   ctxVars, finalVars, readErrs, writeErrs, errAtZero, repVars>>

\* Wait with the budget used up.
WaitBudgetExceeded ==
    /\ pc = "wait"
    /\ WaitExceeded(retryCtr, maxRetries)
    /\ Return(ErrRetryParametersExceeded)
    /\ UNCHANGED <<cfgVars, contentLength, sinkVars, retryVars, request, body,
                   respLog, numRequests, ctxVars, finalVars, histVars, repVars>>

\* Wait up to its select.
WaitArm ==
    /\ pc = "wait"
    /\ ~WaitExceeded(retryCtr, maxRetries)
    /\ currentWait' = WaitPeriod(currentWait, prevPos, count)
    /\ prevPos' = count
    /\ pc' = "select"
    /\ UNCHANGED <<cfgVars, result, contentLength, sinkVars, retryCtr, httpVars,
                   ctxVars, finalVars, histVars, repVars>>

\* The timer fires first (it cannot when the context was cancelled before the
\* sleep began, the wait period being positive).
WaitTimer ==
    /\ pc = "select"
    /\ ~cancelled \/ cancelledAt = "select"
    /\ retryCtr' = WaitDeferred(retryCtr, currentWait).retryCtr
    /\ currentWait' = WaitDeferred(retryCtr, currentWait).currentWait
    /\ pc' = "runInner"
    /\ UNCHANGED <<cfgVars, result, contentLength, sinkVars, prevPos, httpVars,
                   ctxVars, finalVars, histVars, repVars>>

\* ctx.Done() is taken: Wait returns ctx.Err() and run returns it.
WaitCanceled ==
    /\ pc = "select"
    /\ cancelled
    /\ retryCtr' = WaitDeferred(retryCtr, currentWait).retryCtr
    /\ currentWait' = WaitDeferred(retryCtr, currentWait).currentWait
    /\ Return(ErrCtxCanceled)
    /\ UNCHANGED <<cfgVars, contentLength, sinkVars, prevPos, request, body,
                   respLog, numRequests, ctxVars, finalVars, histVars, repVars>>

\* Mutant: the two digests of the error are swapped.
HashCheck_Swapped(f, hs) ==
    LET givenHash == HashSum(hs[f.hasher].h) IN
      IF givenHash # f.expected
      THEN [set |-> TRUE, ExpectedHash |-> givenHash, GivenHash |-> f.expected]
      ELSE [set |-> FALSE, ExpectedHash |-> EmptyDigest, GivenHash |-> EmptyDigest]

\* The check a WithExpectedHash option registered.
HashCheck(f, hs) ==
    LET givenHash == HashSum(hs[f.hasher].h) IN
      IF givenHash # f.expected
      THEN [set |-> TRUE, ExpectedHash |-> f.expected, GivenHash |-> givenHash]
      ELSE NoMismatch

\* One iteration of the loop over d.finalFuncs.
FinalFunc ==
    /\ pc = "final"
    /\ finalIdx <= Len(finalFuncs)
    /\ evaluated' = Append(evaluated, finalIdx)
    /\ LET m == HashCheck(finalFuncs[finalIdx], hashers) IN
         IF m.set
         THEN /\ mismatch' = m
              /\ finalIdx' = finalIdx
              /\ Return(ErrHashMismatch)
         ELSE /\ mismatch' = mismatch
              /\ finalIdx' = finalIdx + 1
              /\ UNCHANGED <<pc, result, bodies>>
    /\ UNCHANGED <<cfgVars, contentLength, sinkVars, retryVars, request, body,
                   respLog, numRequests, ctxVars, histVars, repVars>>

\* Every check passed: run returns nil.
ReturnNil ==
    /\ pc = "final"
    /\ finalIdx > Len(finalFuncs)
    /\ Return(ErrNil)
    /\ UNCHANGED <<cfgVars, contentLength, sinkVars, retryVars, request, body,
                   respLog, numRequests, ctxVars, finalVars, histVars, repVars>>

\* The caller cancels the context it passed to DownloadURL.
Cancel ==
    /\ pc # "done"
    /\ ~cancelled
    /\ cancelled' = TRUE
    /\ cancelledAt' = pc
    /\ reqsAtCancel' = numRequests
    /\ UNCHANGED <<cfgVars, pc, result, contentLength, sinkVars, retryVars,
                   httpVars, finalVars, histVars, repVars>>

\* current <= uint64(length) for a count current and an int64 length: a
\* negative length converts to 2^64 + length, above every count.
LeqUint64(current, length) == length < 0 \/ current <= length

\* run's context is done: cancelled by the caller, or by run's deferred cancel.
CtxDone == cancelled \/ pc = "done"

\* progressReportLoop takes a tick and evaluates d.writer.Count().
RepTick ==
    /\ repPc = "select"
    /\ Len(reports) < MaxTicks
    /\ repCur' = count
    /\ repPc' = "call"
    /\ UNCHANGED <<cfgVars, pc, result, contentLength, sinkVars, retryVars,
                   httpVars, ctxVars, finalVars, histVars, reports>>

\* It reads d.contentLength and calls d.progressFunc.
RepCall ==
    /\ repPc = "call"
    /\ reports' = Append(reports, [current |-> repCur, total |-> contentLength])
    /\ repPc' = "select"
    /\ UNCHANGED <<cfgVars, pc, result, contentLength, sinkVars, retryVars,
                   httpVars, ctxVars, finalVars, histVars, repCur>>

\* It takes ctx.Done() and returns.
RepStop ==
    /\ repPc = "select"
    /\ CtxDone
    /\ repPc' = "stopped"
    /\ UNCHANGED <<cfgVars, pc, result, contentLength, sinkVars, retryVars,
                   httpVars, ctxVars, finalVars, histVars, repCur, reports>>

NextRun ==
    \/ IssueRequest
    \/ DoRefused
    \/ DoCanceled
    \/ DoTransportError
    \/ DoResponse
    \/ CopyWrite
    \/ CopyWriteFail
    \/ CopyReadError
    \/ CopyEOF
    \/ WaitBudgetExceeded
    \/ WaitArm
    \/ WaitTimer
    \/ WaitCanceled
    \/ FinalFunc
    \/ ReturnNil
    \/ Cancel

Next ==
    \/ NextRun
    \/ RepTick
    \/ RepCall
    \/ RepStop

\* Sessions without a progress function.
Init ==
    \E opts \in OptionLists : \E mr \in 0..MaxMaxRetries : \E n \in 0..MaxLen :
        Start(opts, mr, ResourceOfLen(n), FALSE)

Spec == Init /\ [][NextRun]_vars

\* Sessions with a progress function and an expected hash.
ProgressRetries == {0, 1}

InitProgress ==
    \E mr \in ProgressRetries : \E n \in 0..MaxLen :
        Start(<<"WithExpectedHash:good">>, mr, ResourceOfLen(n), TRUE)

SpecProgress == InitProgress /\ [][Next]_vars


\* ------------------------------------------------------- shared vocabulary
\* The copy loop ended with io.Copy returning nil.
TransferComplete == copyDone

\* The session returned.
Done == pc = "done"

\* The only copy failures of the session were interrupted body reads.
OnlyInterruptions == writeErrs = 0

\* The Content-Range of a server serving resource from offset `from` to its end.
HonestRange(from) == ContentRange("bytes", from, Len(resource) - 1, Len(resource))

\* Every request was answered, by a server that declares the length of the
\* resource and honours Range headers.
HonoursRange ==
    /\ numRequests = Len(respLog)
    /\ \A i \in 1..Len(respLog) :
         IF respLog[i].hasRange
         THEN /\ respLog[i].status = StatusPartialContent
              /\ respLog[i].contentRange = HonestRange(respLog[i].from)
         ELSE /\ respLog[i].status = StatusOK
              /\ respLog[i].contentLength = Len(resource)

\* Every registered check expects the digest of the resource.
ExpectsResourceDigest ==
    \A i \in 1..Len(finalFuncs) : finalFuncs[i].expected = OnePassDigest(resource)

\* The digest check i would compute now.
GivenHashOf(i) == HashSum(hashers[finalFuncs[i].hasher].h)

\* ------------------------------------------------------------------ claims

\* C1: when a session returns success, whatever interruptions preceded it,
\* the destination holds exactly the resource's bytes in offset order (none
\* twice, none skipped), and the count written equals the content length the
\* server declared.
C1_ExactlyOnce ==
    result = ErrNil =>
        /\ dest = resource
        /\ count = Len(dest)
        /\ contentLength # UnknownLength => count = contentLength

C1_Witness ==
    /\ result = ErrNil
    /\ readErrs >= 1
    /\ retryCtr >= 2
    /\ Len(resource) = MaxLen

\* C2: when the transfer completes after any number of interruptions and
\* resumes, every hasher attached with WithExpectedHash has been fed exactly
\* the resource, in order, and its digest is the one-pass digest.
C2_HashOverResumes ==
    (TransferComplete /\ OnlyInterruptions) =>
        \A i \in 1..Len(finalFuncs) :
            /\ hashers[finalFuncs[i].hasher].fed = resource
            /\ GivenHashOf(i) = OnePassDigest(resource)

C2_Witness ==
    /\ TransferComplete
    /\ OnlyInterruptions
    /\ readErrs >= 2
    /\ Len(finalFuncs) >= 1
    /\ Len(resource) = MaxLen

\* C3 (as claimed): a session whose every request is answered 502 ends with
\* ErrRetryParametersExceeded after exactly MaxRetries + 1 requests.
C3_BadGatewayRetried ==
    (/\ Done
     /\ numRequests >= 1
     /\ numRequests = Len(respLog)
     /\ \A i \in 1..Len(respLog) : respLog[i].status = StatusBadGateway)
    => /\ result = ErrRetryParametersExceeded
       /\ numRequests = maxRetries + 1

\* C4: a response to a resume request (made with bytes committed) whose
\* status is neither 206 nor 502 ends the session at once with a
\* non-retryable error: no wait, no retry counted, no further request, no
\* byte written.
C4_ResumeStatusFailsFast ==
    \A i \in 1..Len(respLog) :
        (/\ respLog[i].committed > 0
         /\ respLog[i].status \notin {StatusPartialContent, StatusBadGateway})
        => /\ i = Len(respLog)
           /\ Done
           /\ result = ErrNonRetryable
           /\ retryCtr = respLog[i].ctr
           /\ numRequests = i
           /\ Len(dest) = respLog[i].committed

C4_Witness ==
    /\ Len(respLog) >= 2
    /\ respLog[Len(respLog)].committed > 0
    /\ respLog[Len(respLog)].hasRange
    /\ respLog[Len(respLog)].status = StatusOK

\* C5: a digest that differs from the expected one makes the session fail
\* with ErrHashMismatch carrying the configured expected digest and the
\* computed one; the error arises only after the copy completed without
\* error, and with no interruption no retry is recorded.
C5_HashMismatch ==
    /\ result = ErrHashMismatch =>
         /\ TransferComplete
         /\ evaluated # <<>>
         /\ mismatch.set
         /\ mismatch.ExpectedHash = finalFuncs[evaluated[Len(evaluated)]].expected
         /\ mismatch.GivenHash = GivenHashOf(evaluated[Len(evaluated)])
         /\ mismatch.GivenHash # mismatch.ExpectedHash
         /\ (readErrs = 0 /\ writeErrs = 0) => (retryCtr = 0 /\ numRequests = 1)
    /\ result = ErrNil =>
         \A i \in 1..Len(finalFuncs) : GivenHashOf(i) = finalFuncs[i].expected
    /\ (Done /\ TransferComplete /\ result # ErrHashMismatch) => result = ErrNil

C5_Witness ==
    /\ result = ErrHashMismatch
    /\ readErrs = 0
    /\ writeErrs = 0
    /\ mismatch.ExpectedHash = EmptyDigest
    /\ mismatch.GivenHash = OnePassDigest(resource)
    /\ Len(resource) = MaxLen

\* C6: against a server that honours range requests, a download with the
\* right expected digests whose copy is interrupted k <= MaxRetries times,
\* each time with at least one byte committed, ends in success with the retry
\* counter at k and k + 1 requests sent, every resume request asking for the
\* range that starts at the bytes committed so far.
C6_InterruptedKTimes ==
    (/\ Done
     /\ ~cancelled
     /\ HonoursRange
     /\ ExpectsResourceDigest
     /\ OnlyInterruptions
     /\ ~errAtZero
     /\ readErrs <= maxRetries)
    => /\ result = ErrNil
       /\ retryCtr = readErrs
       /\ numRequests = readErrs + 1
       /\ \A i \in 2..Len(respLog) :
            /\ respLog[i].hasRange
            /\ respLog[i].from = respLog[i].committed

C6_Witness ==
    /\ Done
    /\ ~cancelled
    /\ HonoursRange
    /\ ExpectsResourceDigest
    /\ OnlyInterruptions
    /\ ~errAtZero
    /\ Len(finalFuncs) >= 1
    /\ maxRetries = MaxMaxRetries
    /\ readErrs = maxRetries
    /\ result = ErrNil

C8_ProgressMonotone ==
    /\ \A i \in 1..Len(reports) : \A j \in i..Len(reports) :
         reports[i].current <= reports[j].current
    /\ \A i \in 1..Len(reports) : LeqUint64(reports[i].current, reports[i].total)

C8_Witness ==
    /\ Len(reports) >= 2
    /\ reports[1].current < reports[2].current
    /\ reports[2].total > 0
    /\ reports[2].current = reports[2].total
    /\ retryCtr >= 1

\* C9: finalization checks run only after the copy completed without error,
\* each at most once and in registration order; the first failing check ends
\* the session with its error and no later check runs; a session that fails
\* in the transfer evaluates none.
C9_Finalization ==
    /\ \A i \in 1..Len(evaluated) : evaluated[i] = i
    /\ Len(evaluated) <= Len(finalFuncs)
    /\ evaluated # <<>> => TransferComplete
    /\ (Done /\ result \notin {ErrNil, ErrHashMismatch}) => evaluated = <<>>
    /\ result = ErrHashMismatch =>
         /\ mismatch.ExpectedHash = finalFuncs[Len(evaluated)].expected
         /\ GivenHashOf(Len(evaluated)) # finalFuncs[Len(evaluated)].expected
         /\ \A i \in 1..(Len(evaluated) - 1) : GivenHashOf(i) = finalFuncs[i].expected
    /\ result = ErrNil => Len(evaluated) = Len(finalFuncs)

C9_Witness ==
    /\ result = ErrHashMismatch
    /\ Len(finalFuncs) = 2
    /\ evaluated = <<1>>
    /\ retryCtr >= 1

\* C10 (as claimed): in every state each attached hash sink has received
\* exactly the bytes the byte-count tracker counts as committed to the
\* destination, in the same order and once each.
C10_HashSinksMatchCommitted ==
    /\ count = Len(dest)
    /\ \A i \in 1..Len(hashers) : hashers[i].fed = dest

\* ------------------------------------------------ Wait over long downloads
\* The values of d.writer.Count() that run passes to Wait, on both sides of
\* the progress threshold of one MiB.
Positions == {0, 1, oneMB, oneMB + 1, oneMB + 2, 2 * oneMB + 2, 2 * oneMB + 3}

\* One pass of run's loop whose copy ends with an error: the request, its
\* response and the copy up to the error, which leaves the counter at some
\* position not below the one it had.
AttemptFails ==
    /\ pc = "runInner"
    /\ ~ClientRefuses(cancelled)
    /\ numRequests' = numRequests + 1
    /\ \E p \in Positions : p >= count /\ count' = p
    /\ pc' = "wait"
    /\ UNCHANGED <<cfgVars, result, contentLength, dest, hashers, retryVars,
                   request, body, respLog, bodies, ctxVars, finalVars, histVars,
                   repVars>>

\* One pass of run's loop whose copy reaches the end of the body: run leaves
\* the loop and, with no final function registered, returns nil.
AttemptSucceeds ==
    /\ pc = "runInner"
    /\ ~ClientRefuses(cancelled)
    /\ numRequests' = numRequests + 1
    /\ \E p \in Positions : p >= count /\ count' = p
    /\ copyDone' = TRUE
    /\ Return(ErrNil)
    /\ UNCHANGED <<cfgVars, contentLength, dest, hashers, retryVars, request,
                   body, respLog, ctxVars, finalVars, readErrs,
                   writeErrs, errAtZero, repVars>>

\* The steps of run itself, the caller's cancellation apart.
RunWait ==
    \/ AttemptFails
    \/ AttemptSucceeds
    \/ DoRefused
    \/ WaitBudgetExceeded
    \/ WaitArm
    \/ WaitTimer
    \/ WaitCanceled

NextWait == RunWait \/ Cancel

\* Sessions seen from Wait: no option, no progress callback, and a resource
\* whose bytes play no part.
InitWait ==
    \E mr \in 0..MaxMaxRetries : Start(<<>>, mr, ResourceOfLen(0), FALSE)

SpecWait == InitWait /\ [][NextWait]_vars

\* Every request, body copy and backoff wait returns: run is not left
\* waiting forever at a step it can take.
FairSpecWait == SpecWait /\ WF_vars(RunWait)

\* The i-th response was handed to run as a body to copy: a later response
\* followed it, or the session did not end with the error runInner gives a
\* response it turns down.
Accepted(i) ==
    \/ i < Len(respLog)
    \/ result \notin {ErrNonRetryable, ErrBadGatewayPlain}

\* C11 (as claimed): every attempt made with no byte committed, a retry after
\* an interruption before the first byte included, sends no Range header and
\* has its 200 response accepted as the full content; the Range header and
\* the 206 requirement apply exactly to attempts with bytes committed.
C11_OffsetZeroPlainGet ==
    \A i \in 1..Len(respLog) :
       LET e == respLog[i] IN
         /\ e.from = 0 =>
              /\ ~e.hasRange
              /\ e.status = StatusOK => Accepted(i)
         /\ e.from > 0 =>
              /\ e.hasRange
              /\ Accepted(i) => e.status = StatusPartialContent

\* A Content-Range header of the form "bytes start-end/total" naming the
\* requested offset, the last byte and the whole length.
ValidRange(cr, from, cl) ==
    /\ Len(cr) = 6
    /\ cr[1] \in {"bytes", "Bytes"}
    /\ cr[2] = from
    /\ cr[4] = cl - 1
    /\ cr[6] = cl

\* C12: a 206 response to a resume request is accepted only if its
\* Content-Range reads bytes start-end/total with start the requested offset,
\* end the recorded content length minus one and total the recorded content
\* length; otherwise the session ends with a non-retryable error, the retry
\* counter is where it was when the request was made, and no byte of that
\* response reached the destination.
C12_ContentRangeValidated ==
    \A i \in 1..Len(respLog) :
       LET e == respLog[i] IN
         (e.from > 0 /\ e.status = StatusPartialContent) =>
           /\ Accepted(i) => ValidRange(e.contentRange, e.from, contentLength)
           /\ ~ValidRange(e.contentRange, e.from, contentLength) =>
                /\ i = Len(respLog)
                /\ Done
                /\ result = ErrNonRetryable
                /\ retryCtr = e.ctr
                /\ Len(dest) = e.committed

\* A resume request was answered 206 with the right start and total but an
\* end one byte short, and the session ended on it.
C12_Witness ==
    /\ Done
    /\ result = ErrNonRetryable
    /\ respLog # <<>>
    /\ LET e == respLog[Len(respLog)] IN
         /\ e.from > 0
         /\ e.status = StatusPartialContent
         /\ Len(e.contentRange) = 6
         /\ e.contentRange[2] = e.from
         /\ e.contentRange[4] = contentLength - 2
         /\ e.contentRange[6] = contentLength

\* C13: the recorded content length is the length the first response
\* declared, whatever that value is, and no later response changes it; a
\* first response of 502 records nothing and has no successor.
C13_ContentLengthFixed ==
    respLog # <<>> =>
       IF respLog[1].status = StatusBadGateway
       THEN contentLength = 0 /\ Len(respLog) = 1
       ELSE contentLength = respLog[1].contentLength

\* A second response declared another length than the first and was accepted,
\* and the recorded length is still the first one.
C13_Witness ==
    /\ Len(respLog) >= 2
    /\ pc = "copy"
    /\ respLog[2].contentLength # respLog[1].contentLength
    /\ contentLength = respLog[1].contentLength

\* C14: the retry counter never exceeds MaxRetries; no backoff sleep starts
\* once the counter has reached MaxRetries; a Wait called then returns the
\* budget-exceeded error, leaving the retry state alone, and that error is
\* the session's result.
C14_RetryBudget ==
    /\ [](/\ retryCtr <= maxRetries
          /\ pc = "select" => retryCtr < maxRetries
          /\ result = ErrRetryParametersExceeded => Done /\ retryCtr = maxRetries)
    /\ [][(pc = "wait" /\ retryCtr >= maxRetries /\ pc' # "wait") =>
             /\ pc' = "done"
             /\ result' = ErrRetryParametersExceeded
             /\ UNCHANGED retryVars]_vars

\* A session with a budget of at least one retry used it up and ended with
\* the budget-exceeded error.
C14_Witness ==
    /\ Done
    /\ result = ErrRetryParametersExceeded
    /\ maxRetries >= 1
    /\ retryCtr = maxRetries

\* C15 (as claimed): a Wait that passes the budget check sleeps for BaseWait
\* whenever it is the first Wait of the session or the position it is given
\* exceeds the position the previous Wait recorded by more than one MiB,
\* whatever that recorded position was, 0 included.
C15_ResetOnProgress ==
    [][(pc = "wait" /\ pc' = "select") =>
         ((retryCtr = 0 \/ count > prevPos + oneMB) => currentWait' = BaseWait)]_vars

RECURSIVE Pow(_, _)
Pow(b, n) == IF n = 0 THEN 1 ELSE b * Pow(b, n - 1)

\* C16: every Wait that passes the budget check, when its select returns by
\* the timer or by cancellation, adds exactly 1 to the retry counter and
\* multiplies the wait period by WaitMultiplier; while no reset can have
\* happened since the first Wait (the position never passed one MiB), the
\* i-th Wait sleeps for BaseWait * WaitMultiplier^(i-1); a Wait that fails
\* the budget check changes neither the counter nor the wait period.
C16_WaitAdvances ==
    /\ [](pc = "select" /\ count <= oneMB =>
            currentWait = BaseWait * Pow(WaitMultiplier, retryCtr))
    /\ [][(pc = "select" /\ pc' # "select") =>
             /\ retryCtr' = retryCtr + 1
             /\ currentWait' = currentWait * WaitMultiplier]_vars
    /\ [][(pc = "wait" /\ pc' = "done") =>
             /\ retryCtr' = retryCtr
             /\ currentWait' = currentWait]_vars

\* The second Wait of a session reset the wait period on progress, its sleep
\* was cut short by cancellation, and counter and period advanced all the
\* same.
C16_Witness ==
    /\ Done
    /\ result = ErrCtxCanceled
    /\ cancelledAt = "select"
    /\ retryCtr = 2
    /\ prevPos > oneMB
    /\ currentWait = BaseWait * WaitMultiplier

\* C17 (as claimed): at most one response body is open for draining at any
\* time: while a request is with the client, no body of an earlier attempt
\* is still open with bytes left to read.
C17_OneBodyOpen ==
    pc = "do" =>
       \A i \in 1..Len(bodies) :
          bodies[i] = "open" => (i = Len(bodies) /\ body = <<>>)

\* C18 (as claimed): once the session has ended, with whatever outcome,
\* every response body the client returned has been closed, the bodies of
\* 502 and unexpected-status responses included.
C18_BodiesClosed ==
    Done => \A i \in 1..Len(bodies) : bodies[i] = "closed"

\* C19 (as claimed): the progress reporter is stopped by the time the
\* session ends: once DownloadURL has returned, the callback is not invoked
\* any more.
C19_ReporterStopped ==
    [][Done => reports' = reports]_vars

\* C20: under the assumption that every request, body copy and backoff wait
\* returns, a session issues at most MaxRetries + 1 requests and reaches a
\* terminal state, for every MaxRetries >= 0 and every sequence of positions
\* its copies fail at, progress of more than one MiB on each attempt
\* included.
C20_Terminates ==
    /\ [](numRequests <= maxRetries + 1)
    /\ <>Done

\* A session of at least two retries, the last of which reset the wait
\* period on progress, issued MaxRetries + 1 requests and ended with the
\* budget-exceeded error.
C20_Witness ==
    /\ Done
    /\ result = ErrRetryParametersExceeded
    /\ maxRetries >= 2
    /\ numRequests = maxRetries + 1
    /\ prevPos > oneMB
    /\ currentWait = BaseWait * WaitMultiplier

====
